---- MODULE Spec2Model ----
(***************************************************************************)
(* ReAct engine of ai_agent: ReActEngine.run and its collaborators         *)
(* Planner.decide_action, ToolRegistry and TrajectoryRecorder.             *)
(*                                                                         *)
(* One engine instance executes runs one after another.  A run is a        *)
(* sequential process whose position is pc; the wall clock now advances    *)
(* while a run is in flight.  The model client and the tools are the       *)
(* environment: a model call returns a text or raises, a tool call returns *)
(* an output or raises.                                                    *)
(***************************************************************************)
EXTENDS Integers, Sequences, FiniteSets, TLC

(* ------------------------------ bounds -------------------------------- *)

\* largest agent.max_iterations a configuration may set
MaxIter == 2
\* largest agent.timeout_seconds a configuration may set
MaxTimeout == 1

(* ------------------------------ values -------------------------------- *)

\* Python's None for the nullable numeric fields end_time, duration_seconds
Null == -1

\* A string built by the code is kept in its parts: a literal prefix, the
\* interpolated cause and the interpolated body.  A plain string has no
\* prefix and no cause.
Text(prefix, name, cause, body) ==
    [prefix |-> prefix, name |-> name, cause |-> cause, body |-> body]
Plain(s) == Text("", "", "", s)
\* Python's None for the nullable string field final_result
NoneText == Text("None", "", "", "")
EmptyText == Plain("")

Tasks == {"task1"}
Thoughts == {"thought"}
Answers == {"4"}
ToolOutputs == {"out"}
ToolErrors == {"Tool error"}

\* names of the tools _setup_tools can register, in its registration order
ToolOrder == <<"file", "calculator">>
\* the tool sets the repository's configurations enable: none (AgentRunner),
\* the calculator (unit-test fixture), file and calculator (tests/test_agent)
ToolConfigs == {{}, {"calculator"}, {"file", "calculator"}}
FINAL_ANSWER == "final_answer"

(* ------------------------ model decision texts ------------------------ *)

\* The value of "action_input" inside a decision text.
InputNone == [isDict |-> FALSE, hasAnswer |-> FALSE, answer |-> EmptyText]
InputDict == [isDict |-> TRUE, hasAnswer |-> FALSE, answer |-> EmptyText]
InputAnswer(a) == [isDict |-> TRUE, hasAnswer |-> TRUE, answer |-> a]

\* A decision text, described by what json.loads makes of it.
Response(txt, isJson, isObject, hasAction, action, hasInput, input) ==
    [txt |-> txt, isJson |-> isJson, isObject |-> isObject,
     hasAction |-> hasAction, action |-> action,
     hasInput |-> hasInput, input |-> input]

RNonJson == Response("I will use the calculator", FALSE, FALSE, FALSE, "", FALSE, InputNone)
RNotObject == Response("[1]", TRUE, FALSE, FALSE, "", FALSE, InputNone)
RNoAction == Response("{action_input:{}}", TRUE, TRUE, FALSE, "", TRUE, InputDict)
RUnregistered == Response("{action:web_search,action_input:{}}", TRUE, TRUE, TRUE, "web_search", TRUE, InputDict)
RTool(t) == Response(t, TRUE, TRUE, TRUE, t, TRUE, InputDict)
RToolNoInput == Response("{action:calculator}", TRUE, TRUE, TRUE, "calculator", FALSE, InputNone)
RFinal(a) == Response(a, TRUE, TRUE, TRUE, FINAL_ANSWER, TRUE, InputAnswer(Plain(a)))
RFinalNoAnswer == Response("{action:final_answer,action_input:{}}", TRUE, TRUE, TRUE, FINAL_ANSWER, TRUE, InputDict)

Responses ==
    {RNonJson, RNotObject, RNoAction, RUnregistered, RToolNoInput, RFinalNoAnswer}
    \cup {RTool(ToolOrder[i]) : i \in 1..Len(ToolOrder)}
    \cup {RFinal(a) : a \in Answers}

(* --------------------------- ToolRegistry ----------------------------- *)

\* self.tools, a dict: its items in insertion order, each a name and the
\* tool object registered under it
Entry(name, tool) == [name |-> name, tool |-> tool]

\* the tool class _setup_tools instantiates for a name
ToolClass(name) == IF name = "file" THEN "FileTool" ELSE "CalculatorTool"

\* ToolRegistry.get_available_tools: list(self.tools.keys())
get_available_tools(reg) == [i \in 1..Len(reg) |-> reg[i].name]

Names(reg) == {reg[i].name : i \in 1..Len(reg)}

\* a registry that keeps the first tool registered under a name
register_tool_first_wins(reg, name, tool) ==
    IF name \in Names(reg) THEN reg ELSE Append(reg, Entry(name, tool))

\* a registry that moves a name registered again to the end of the listing
register_tool_reinsert(reg, name, tool) ==
    Append(SelectSeq(reg, LAMBDA e : e.name # name), Entry(name, tool))

\* ToolRegistry.register_tool: self.tools[name] = tool.  A dict keeps the
\* position of a key that is assigned again and replaces its value.
register_tool(reg, name, tool) ==
    IF name \in Names(reg)
    THEN [i \in 1..Len(reg) |-> IF reg[i].name = name THEN Entry(name, tool) ELSE reg[i]]
    ELSE Append(reg, Entry(name, tool))

\* ToolRegistry.get_tool: raises ValueError when name is not registered
get_tool_raises(reg, name) == name \notin Names(reg)

\* ToolRegistry.get_tool: the tool stored under name, or the ValueError
\* f"Tool not found: {name}"
get_tool(reg, name) ==
    IF get_tool_raises(reg, name)
    THEN [raises |-> "ValueError", message |-> Text("Tool not found", name, "", ""), tool |-> ""]
    ELSE [raises |-> "", message |-> EmptyText,
          tool |-> (CHOOSE e \in {reg[i] : i \in 1..Len(reg)} : e.name = name).tool]

\* ReActEngine._setup_tools: registers each enabled tool, in source order
RECURSIVE SetupFrom(_, _, _)
SetupFrom(i, enabled, reg) ==
    IF i > Len(ToolOrder) THEN reg
    ELSE SetupFrom(i + 1, enabled,
                   IF ToolOrder[i] \in enabled
                   THEN register_tool(reg, ToolOrder[i], ToolClass(ToolOrder[i]))
                   ELSE reg)
_setup_tools(enabled) == SetupFrom(1, enabled, <<>>)

(* ------------------------ Planner.decide_action ----------------------- *)

Decision(action, hasInput, input) ==
    [action |-> action, hasInput |-> hasInput, action_input |-> input]
NoDecision == Decision("", FALSE, InputNone)

\* the except branch of decide_action: the synthetic final_answer decision
FallbackDecision(name, cause, response) ==
    Decision(FINAL_ANSWER, TRUE,
             InputAnswer(Text("Error parsing action decision", name, cause, response.txt)))

\* an except clause that catches ValueError only
CaughtByDecideValueErrorOnly == {"ValueError"}

\* the exception classes the except clause of decide_action catches
CaughtByDecide == {"JSONDecodeError", "ValueError"}

\* a try block that does not compare the action with the registry
ParseRaisesUnchecked(response, reg) ==
    IF ~response.isJson THEN "JSONDecodeError"
    ELSE IF ~response.isObject THEN "TypeError"
    ELSE IF ~response.hasAction THEN "KeyError"
    ELSE ""

\* What the try block of decide_action raises for a response, "" if nothing:
\* json.loads raises JSONDecodeError for a text that is not JSON;
\* action_decision['action'] raises TypeError when the JSON value is not an
\* object and KeyError when the object has no key 'action'; an action that is
\* neither registered nor final_answer raises ValueError.
ParseRaises(response, reg) ==
    IF ~response.isJson THEN "JSONDecodeError"
    ELSE IF ~response.isObject THEN "TypeError"
    ELSE IF ~response.hasAction THEN "KeyError"
    ELSE IF response.action \notin Names(reg) \cup {FINAL_ANSWER}
         THEN "ValueError"
    ELSE ""

\* Planner.decide_action after the model call returned response: the
\* exception that leaves decide_action ("" if none) and the decision returned.
decide_action(response, reg) ==
    LET exc == ParseRaises(response, reg) IN
    IF exc = ""
    THEN [raises |-> "",
          decision |-> Decision(response.action, response.hasInput, response.input)]
    ELSE IF exc \in CaughtByDecide
    THEN [raises |-> "",
          decision |-> FallbackDecision(
              IF exc = "ValueError" THEN response.action ELSE "",
              IF exc = "ValueError" THEN "Invalid action" ELSE "Expecting value",
              response)]
    ELSE [raises |-> exc, decision |-> NoDecision]

(* ----------------------- ReActEngine._execute_action ------------------ *)

\* A tool call of the environment: the tool returns out, or raises msg.
ToolReturn(out) == [raises |-> FALSE, text |-> out]
ToolRaise(msg) == [raises |-> TRUE, text |-> msg]
ToolOutcomes == {ToolReturn(o) : o \in ToolOutputs} \cup {ToolRaise(m) : m \in ToolErrors}

\* _execute_action without its try/except: the tool's exception leaves it
_execute_action_uncaught(decision, reg, outcome) ==
    IF ~decision.hasInput THEN [raises |-> "KeyError", text |-> EmptyText]
    ELSE IF get_tool_raises(reg, decision.action)
    THEN [raises |-> "ValueError", text |-> EmptyText]
    ELSE IF outcome.raises
    THEN [raises |-> "Exception", text |-> EmptyText]
    ELSE [raises |-> "", text |-> Plain(outcome.text)]

\* _execute_action whose except branch leaves the action name out
_execute_action_unnamed(decision, reg, outcome) ==
    IF ~decision.hasInput THEN [raises |-> "KeyError", text |-> EmptyText]
    ELSE IF get_tool_raises(reg, decision.action)
    THEN [raises |-> "", text |-> Text("Error executing action", "", "Tool not found", "")]
    ELSE IF outcome.raises
    THEN [raises |-> "", text |-> Text("Error executing action", "", outcome.text, "")]
    ELSE [raises |-> "", text |-> Plain(outcome.text)]

\* ReActEngine._execute_action: the read of action_decision["action_input"]
\* lies outside the try block; the registry lookup and tool.execute lie
\* inside it and every Exception they raise becomes the returned string.
_execute_action(decision, reg, outcome) ==
    IF ~decision.hasInput THEN [raises |-> "KeyError", text |-> EmptyText]
    ELSE IF get_tool_raises(reg, decision.action)
    THEN [raises |-> "",
          text |-> Text("Error executing action", decision.action,
                        get_tool(reg, decision.action).message.prefix,
                        get_tool(reg, decision.action).message.name)]
    ELSE IF outcome.raises
    THEN [raises |-> "",
          text |-> Text("Error executing action", decision.action, outcome.text, "")]
    ELSE [raises |-> "", text |-> Plain(outcome.text)]

\* a final_answer branch that substitutes an empty answer for a missing one
FinalAnswerResultDefault(decision) ==
    IF decision.hasInput /\ decision.action_input.isDict /\ decision.action_input.hasAnswer
    THEN [raises |-> "", text |-> decision.action_input.answer]
    ELSE [raises |-> "", text |-> EmptyText]

\* The final_answer branch of _execute_step:
\* result = action_decision["action_input"]["answer"]
FinalAnswerResult(decision) ==
    IF ~decision.hasInput THEN [raises |-> "KeyError", text |-> EmptyText]
    ELSE IF ~decision.action_input.isDict THEN [raises |-> "TypeError", text |-> EmptyText]
    ELSE IF ~decision.action_input.hasAnswer THEN [raises |-> "KeyError", text |-> EmptyText]
    ELSE [raises |-> "", text |-> decision.action_input.answer]

\* a completion test that holds of every step
_is_task_complete_always(step) == TRUE

\* ReActEngine._is_task_complete
_is_task_complete(step) == step.action = FINAL_ANSWER

(* ------------------------- TrajectoryRecorder ------------------------- *)

Trajectory(t, st, et, ss, ok, fr, n, d) ==
    [task |-> t, start_time |-> st, end_time |-> et, steps |-> ss,
     success |-> ok, final_result |-> fr, total_steps |-> n,
     duration_seconds |-> d]

\* TrajectoryRecorder.start: the new current_trajectory
StartTrajectory(t, time) ==
    Trajectory(t, time, Null, <<>>, FALSE, NoneText, 0, Null)

\* a start that keeps the step list of the previous trajectory
StartStepsKept(ss) == ss

\* TrajectoryRecorder.start: self.steps = [], whatever the list held
StartSteps(ss) == <<>>

\* step numbers counted from 0
NextStepNumberZeroBased(ss) == Len(ss)

\* the step_number record_step assigns
NextStepNumber(ss) == Len(ss) + 1

TrajectoryStep(time, th, decision, obs, res, n) ==
    [timestamp |-> time, thought |-> th, action |-> decision.action,
     action_input |-> decision.action_input, observation |-> obs,
     result |-> res, step_number |-> n]

\* TrajectoryRecorder.record_step: the new self.steps
RecordedSteps(ss, time, th, decision, obs, res) ==
    Append(ss, TrajectoryStep(time, th, decision, obs, res, NextStepNumber(ss)))

\* TrajectoryRecorder.record_step: the new current_trajectory
RecordedTrajectory(traj, ss) ==
    [traj EXCEPT !.steps = ss, !.total_steps = Len(ss)]

\* complete() that forgets to store final_result
CompletedTrajectoryNoResult(traj, final, success, time, started) ==
    [traj EXCEPT !.end_time = time, !.success = success,
                 !.duration_seconds = time - started]

\* TrajectoryRecorder.complete: the sealed current_trajectory
CompletedTrajectory(traj, final, success, time, started) ==
    [traj EXCEPT !.end_time = time, !.success = success,
                 !.final_result = final, !.duration_seconds = time - started]

(* ------------------------------ state --------------------------------- *)

VARIABLES
    max_iterations,      \* ReActEngine.max_iterations
    timeout_seconds,     \* ReActEngine.timeout_seconds
    tool_registry,       \* ToolRegistry.tools: the registered names, in dict order
    pc,                  \* position of the run in ReActEngine.run / _execute_step
    task,                \* current_state["task"]
    progress,            \* current_state["progress"]
    iteration,           \* local iteration of run
    start_time,          \* local start_time of run
    now,                 \* time.time()
    thought,             \* local thought of _execute_step
    action_decision,     \* local action_decision of _execute_step: <<>> or <<decision>>
    observation,         \* local observation of _execute_step
    result,              \* local result of _execute_step
    current_trajectory,  \* TrajectoryRecorder.current_trajectory: <<>> (None) or <<trajectory>>
    steps,               \* TrajectoryRecorder.steps
    returned,            \* value returned by the last run
    error,               \* exception kind raised by the last run, "" if none
    step_execs,          \* _execute_step calls of the current run
    model_calls,         \* client.chat calls of the current run
    tool_calls,          \* tool.execute calls of the current run
    tool_failures,       \* tool.execute calls of the current run that raised
    model_failed,        \* a client.chat call of the current run raised
    response,            \* local response of decide_action: <<>> or <<text>>
    messages,            \* the messages argument of the last client.chat call
    thought_prompt,      \* local thought_prompt of _execute_step: <<>> or <<prompt>>
    calls,               \* the last two of the run() and reset() calls issued
    dispatch,            \* the last _execute_action call made outside run: <<>> or <<call>>
    reg_log,             \* the register_tool calls made on a registry, in order
    got,                 \* the last get_tool call and its outcome: <<>> or <<call>>
    calc_args,           \* the keyword arguments of a CalculatorTool.execute call: <<>> or <<args>>
    calc_return,         \* what that call returned or raised: <<>> or <<outcome>>
    api_calls,           \* PerformanceTracker.api_calls
    total_token_usage,   \* PerformanceTracker.total_token_usage
    since_reset,         \* record_api_call calls made since the last reset of the tracker
    was_reset,           \* reset has been called on the tracker
    db_failed,           \* the last save of a call to the database raised
    concurrency,         \* AgentRunner.concurrency
    test_cases,          \* the test_cases argument of run_suite: the prompts
    permits,             \* the free slots of the semaphore of run_suite
    case_pc,             \* position of each case of run_suite
    case_step,           \* per case, local step of its engine.run: <<>> or <<step>>
    case_run,            \* per case, how its engine.run ended: <<>> or <<outcome>>
    storage,             \* the records appended to the storage of run_suite
    runner,              \* the runner class whose run_suite is followed
    store,               \* the class of the storage handed to run_suite
    case_result,         \* per case, what gather holds for it: <<>> or <<result>>
    traj_owner,          \* the case whose start() made the current trajectory, 0 if none
    step_owner,          \* per step of TrajectoryRecorder.steps, the case that recorded it
    rec_calls,           \* operations called on a TrajectoryRecorder used on its own
    disk,                \* the file save_to_file wrote: <<>> or <<data>>
    sealed,              \* the trajectory as complete() first sealed it: <<>> or <<trajectory>>
    external             \* a file that save_to_file did not write has been loaded

vars == <<max_iterations, timeout_seconds, tool_registry, pc, task, progress,
          iteration, start_time, now, thought, action_decision, observation,
          result, current_trajectory, steps, returned, error,
          step_execs, model_calls, tool_calls, tool_failures, model_failed,
          response, messages, thought_prompt, calls, dispatch, reg_log, got,
          calc_args, calc_return, api_calls, total_token_usage, since_reset,
          was_reset, db_failed, concurrency, test_cases, permits, case_pc,
          case_step, case_run, storage, runner, store, case_result,
          traj_owner, step_owner, rec_calls, disk, sealed, external>>

config == <<max_iterations, timeout_seconds, tool_registry>>
recorder == <<current_trajectory, steps>>
locals == <<thought, action_decision, observation, result, response>>
history == <<step_execs, model_calls, tool_calls, tool_failures, model_failed>>
\* what only the caller of the engine changes
outside == <<calls, dispatch>>
\* the objects exercised on their own, apart from a run
reg_vars == <<reg_log, got>>
calc_vars == <<calc_args, calc_return>>
perf_vars == <<api_calls, total_token_usage, since_reset, was_reset, db_failed>>
suite_vars == <<concurrency, test_cases, permits, case_pc, case_step, case_run,
                storage, runner, store, case_result, traj_owner, step_owner>>
rec_vars == <<rec_calls, disk, sealed, external>>
unit == <<reg_vars, calc_vars, perf_vars, suite_vars, rec_vars>>

(* ------------------------------ actions ------------------------------- *)

Running == pc \in {"loop", "thought", "decide", "act", "record", "check"}
Terminal == pc \in {"returned", "raised"}

TheTrajectory == current_trajectory[1]
TheDecision == action_decision[1]

\* the run raises exception kind e
Raise(e) ==
    /\ pc' = "raised"
    /\ error' = e

\* no run has been issued: the frame of run and the recorder are empty
EngineIdle ==
    /\ pc = "idle"
    /\ task = ""
    /\ progress = EmptyText
    /\ iteration = 0
    /\ start_time = 0
    /\ now = 0
    /\ thought = ""
    /\ action_decision = <<>>
    /\ observation = EmptyText
    /\ result = EmptyText
    /\ current_trajectory = <<>>
    /\ steps = <<>>
    /\ returned = NoneText
    /\ error = ""
    /\ step_execs = 0
    /\ model_calls = 0
    /\ tool_calls = 0
    /\ tool_failures = 0
    /\ model_failed = FALSE
    /\ response = <<>>
    /\ messages = <<>>
    /\ thought_prompt = <<>>
    /\ calls = <<>>
    /\ dispatch = <<>>

\* TokenUsage, the dataclass of performance.py
TokenUsage(prompt, completion, total) ==
    [prompt_tokens |-> prompt, completion_tokens |-> completion, total_tokens |-> total]

\* nothing has been done with the objects exercised on their own
RegIdle == reg_log = <<>> /\ got = <<>>
CalcIdle == calc_args = <<>> /\ calc_return = <<>>
PerfIdle ==
    /\ api_calls = <<>>
    /\ total_token_usage = TokenUsage(0, 0, 0)
    /\ since_reset = 0
    /\ was_reset = FALSE
    /\ db_failed = FALSE
\* no AgentRunner has been built
SuiteIdle ==
    /\ concurrency = 0
    /\ test_cases = <<>>
    /\ permits = 0
    /\ case_pc = <<>>
    /\ case_step = <<>>
    /\ case_run = <<>>
    /\ storage = <<>>
    /\ runner = ""
    /\ store = ""
    /\ case_result = <<>>
    /\ traj_owner = 0
    /\ step_owner = <<>>
\* no recorder is used on its own
RecIdle ==
    /\ rec_calls = 0
    /\ disk = <<>>
    /\ sealed = <<>>
    /\ external = FALSE
UnitIdle == RegIdle /\ CalcIdle /\ PerfIdle /\ SuiteIdle /\ RecIdle

Init ==
    /\ max_iterations \in 0..MaxIter
    /\ timeout_seconds \in 0..MaxTimeout
    /\ tool_registry \in {_setup_tools(enabled) : enabled \in ToolConfigs}
    /\ EngineIdle
    /\ UnitIdle

\* the caller issues op: the last two calls are remembered
Called(cs, op) == IF Len(cs) < 2 THEN Append(cs, op) ELSE <<cs[2], op>>
LastCall == IF calls = <<>> THEN "" ELSE calls[Len(calls)]

\* ReActEngine.get_trajectory: TrajectoryRecorder.current_trajectory
get_trajectory == current_trajectory

\* a reset that empties the step list but keeps the trajectory object
reset_trajectory_kept(traj) == traj

\* TrajectoryRecorder.reset: self.current_trajectory = None
reset_trajectory(traj) == <<>>

\* ReActEngine.reset: trajectory_recorder.reset() clears the trajectory and
\* the step list.  The finished run's frame is gone by then: its locals and
\* the outcome handed to the caller are back at their initial values.
Reset ==
    /\ ~Running
    /\ calls' = Called(calls, "reset")
    /\ current_trajectory' = reset_trajectory(current_trajectory)
    /\ steps' = <<>>
    /\ pc' = "idle"
    /\ task' = ""
    /\ progress' = EmptyText
    /\ iteration' = 0
    /\ start_time' = 0
    /\ thought' = ""
    /\ action_decision' = <<>>
    /\ observation' = EmptyText
    /\ result' = EmptyText
    /\ response' = <<>>
    /\ thought_prompt' = <<>>
    /\ messages' = <<>>
    /\ returned' = NoneText
    /\ error' = ""
    /\ step_execs' = 0
    /\ model_calls' = 0
    /\ tool_calls' = 0
    /\ tool_failures' = 0
    /\ model_failed' = FALSE
    /\ UNCHANGED <<dispatch, unit, config, now>>

\* ReActEngine.run up to the loop: locals are set and the recorder is started
Run(t) ==
    /\ ~Running
    /\ task' = t
    /\ start_time' = now
    /\ iteration' = 0
    /\ progress' = EmptyText
    /\ current_trajectory' = <<StartTrajectory(t, now)>>
    /\ steps' = StartSteps(steps)
    /\ pc' = "loop"
    /\ returned' = NoneText
    /\ error' = ""
    /\ thought' = ""
    /\ action_decision' = <<>>
    /\ observation' = EmptyText
    /\ result' = EmptyText
    /\ response' = <<>>
    /\ step_execs' = 0
    /\ model_calls' = 0
    /\ tool_calls' = 0
    /\ tool_failures' = 0
    /\ model_failed' = FALSE
    /\ thought_prompt' = <<>>
    /\ messages' = <<>>
    /\ calls' = Called(calls, "run")
    /\ dispatch' = <<>>
    /\ UNCHANGED <<unit, config, now>>

\* the last reading of the clock the model follows: one second past the
\* largest timeout
MaxClock == MaxTimeout + 1

\* time.time() advances while a run is in flight: before the loop test and
\* during the model calls and the tool call
Tick ==
    /\ pc \in {"loop", "thought", "decide", "act"}
    /\ now < MaxClock
    /\ now' = now + 1
    /\ UNCHANGED <<thought_prompt, messages, outside, unit, config, pc, task, progress, iteration, start_time, locals,
                   recorder, returned, error, history>>

\* the while condition written as iteration <= max_iterations
LoopConditionInclusive(i, max) == i <= max

\* the while condition of run
LoopCondition(i, max) == i < max

\* the timeout test written with >= instead of >
TimedOutInclusive(time, started, timeout) == time - started >= timeout

\* the timeout test of run
TimedOut(time, started, timeout) == time - started > timeout

\* the while loop ends: raise RuntimeError("Maximum iterations reached ...")
LoopExhausted ==
    /\ pc = "loop"
    /\ ~LoopCondition(iteration, max_iterations)
    /\ Raise("RuntimeError")
    /\ UNCHANGED <<thought_prompt, messages, outside, unit, config, task, progress, iteration, start_time, now, locals,
                   recorder, returned, history>>

\* a deadline that is also tested when _execute_step has returned
AtDeadlineTestAfterStep(at) == at \in {"loop", "check"}

\* the positions of run at which the elapsed time is compared with
\* timeout_seconds: the top of the loop body only
AtDeadlineTest(at) == at = "loop"

\* the timeout test at the top of the loop body fails: raise TimeoutError
LoopTimeout ==
    /\ AtDeadlineTest(pc)
    /\ LoopCondition(iteration, max_iterations)
    /\ TimedOut(now, start_time, timeout_seconds)
    /\ Raise("TimeoutError")
    /\ UNCHANGED <<thought_prompt, messages, outside, unit, config, task, progress, iteration, start_time, now, locals,
                   recorder, returned, history>>

\* a thought prompt that shows an empty progress as it is
generate_thought_prompt_raw(t, prog, tools) ==
    [task |-> t, progress |-> prog, tools |-> tools]

\* Planner.generate_thought_prompt: the parts the f-string is rendered from,
\* the progress as {progress or 'No progress yet'}
generate_thought_prompt(t, prog, tools) ==
    [task |-> t,
     progress |-> IF prog = EmptyText THEN Plain("No progress yet") ELSE prog,
     tools |-> tools]

\* the loop body calls _execute_step, which renders the thought prompt
EnterStep ==
    /\ pc = "loop"
    /\ LoopCondition(iteration, max_iterations)
    /\ ~TimedOut(now, start_time, timeout_seconds)
    /\ pc' = "thought"
    /\ step_execs' = step_execs + 1
    /\ thought' = ""
    /\ action_decision' = <<>>
    /\ observation' = EmptyText
    /\ result' = EmptyText
    /\ response' = <<>>
    /\ thought_prompt' = <<generate_thought_prompt(task, progress,
                            get_available_tools(tool_registry))>>
    /\ UNCHANGED <<messages, outside, unit, config, task, progress, iteration, start_time, now,
                   recorder, returned, error, model_calls, tool_calls,
                   tool_failures, model_failed>>

\* the prompts of a step, by the method that renders them
ThoughtPrompt == "generate_thought_prompt"
ActionPrompt == "decide_action"

\* the argument of client.chat: [{"role": "user", "content": prompt}]
ChatMessages(prompt) == <<[role |-> "user", content |-> prompt]>>

\* _execute_step: thought = self.client.chat(...) returns
ThoughtReturns(th) ==
    /\ pc = "thought"
    /\ model_calls' = model_calls + 1
    /\ thought' = th
    /\ pc' = "decide"
    /\ messages' = ChatMessages(ThoughtPrompt)
    /\ UNCHANGED <<thought_prompt, outside, unit, config, task, progress, iteration, start_time, now,
                   action_decision, observation, result, response, recorder,
                   returned, error, step_execs, tool_calls,
                   tool_failures, model_failed>>

\* an engine that swallows the exception of client.chat and returns
ModelCallSwallowed ==
    /\ pc' = "returned"
    /\ error' = error

\* what run does with an exception of client.chat: nothing catches it
ModelCallRaised == Raise("ModelError")

\* _execute_step: thought = self.client.chat(...) raises
ThoughtRaises ==
    /\ pc = "thought"
    /\ model_calls' = model_calls + 1
    /\ model_failed' = TRUE
    /\ ModelCallRaised
    /\ messages' = ChatMessages(ThoughtPrompt)
    /\ UNCHANGED <<thought_prompt, outside, unit, config, task, progress, iteration, start_time, now, locals,
                   recorder, returned, step_execs, tool_calls,
                   tool_failures>>

\* decide_action: self.client.chat(...) raises, outside the try block
DecisionRaises ==
    /\ pc = "decide"
    /\ model_calls' = model_calls + 1
    /\ model_failed' = TRUE
    /\ ModelCallRaised
    /\ messages' = ChatMessages(ActionPrompt)
    /\ UNCHANGED <<thought_prompt, outside, unit, config, task, progress, iteration, start_time, now, locals,
                   recorder, returned, step_execs, tool_calls,
                   tool_failures>>

\* decide_action: self.client.chat(...) returns text, which is parsed
DecisionReturns(text) ==
    /\ pc = "decide"
    /\ model_calls' = model_calls + 1
    /\ response' = <<text>>
    /\ LET d == decide_action(text, tool_registry) IN
       IF d.raises # ""
       THEN /\ Raise(d.raises)
            /\ UNCHANGED action_decision
       ELSE /\ action_decision' = <<d.decision>>
            /\ pc' = "act"
            /\ UNCHANGED error
    /\ messages' = ChatMessages(ActionPrompt)
    /\ UNCHANGED <<thought_prompt, outside, unit, config, task, progress, iteration, start_time, now, thought,
                   observation, result, recorder, returned, step_execs,
                   tool_calls, tool_failures, model_failed>>

\* _execute_step, branch action_decision["action"] == "final_answer"
FinalAnswerStep ==
    /\ pc = "act"
    /\ TheDecision.action = FINAL_ANSWER
    /\ LET r == FinalAnswerResult(TheDecision) IN
       IF r.raises # ""
       THEN /\ Raise(r.raises)
            /\ UNCHANGED <<observation, result>>
       ELSE /\ observation' = Plain("Task completed")
            /\ result' = r.text
            /\ pc' = "record"
            /\ UNCHANGED error
    /\ UNCHANGED <<thought_prompt, messages, outside, unit, config, task, progress, iteration, start_time, now, thought,
                   action_decision, response, recorder, returned,
                   history>>

\* _execute_action reaches tool.execute: action_input and the tool exist
ToolIsCalled(decision, reg) ==
    decision.hasInput /\ ~get_tool_raises(reg, decision.action)

\* _execute_step, else branch: observation = self._execute_action(...)
ToolStep(outcome) ==
    /\ pc = "act"
    /\ TheDecision.action # FINAL_ANSWER
    /\ tool_calls' = IF ToolIsCalled(TheDecision, tool_registry)
                     THEN tool_calls + 1 ELSE tool_calls
    /\ tool_failures' = IF ToolIsCalled(TheDecision, tool_registry) /\ outcome.raises
                        THEN tool_failures + 1 ELSE tool_failures
    /\ LET r == _execute_action(TheDecision, tool_registry, outcome) IN
       IF r.raises # ""
       THEN /\ Raise(r.raises)
            /\ UNCHANGED <<observation, result>>
       ELSE /\ observation' = r.text
            /\ result' = r.text
            /\ pc' = "record"
            /\ UNCHANGED error
    /\ UNCHANGED <<thought_prompt, messages, outside, unit, config, task, progress, iteration, start_time, now, thought,
                   action_decision, response, recorder, returned,
                   step_execs, model_calls, model_failed>>

\* the decisions a caller hands to _execute_action outside run: an action
\* that no configuration registers
DirectDecisions == {Decision("nonexistent_tool", TRUE, InputDict)}

\* a caller invokes engine._execute_action(action_decision) while no run is
\* in flight and keeps what it returned
ExecuteActionDirect(decision, outcome) ==
    /\ ~Running
    /\ dispatch' = <<[decision |-> decision,
                      called |-> ToolIsCalled(decision, tool_registry),
                      return |-> _execute_action(decision, tool_registry, outcome)]>>
    /\ UNCHANGED <<thought_prompt, messages, calls, unit, config, pc, task, progress, iteration,
                   start_time, now, locals, recorder, returned, error,
                   history>>

\* _execute_step: self.trajectory_recorder.record_step(step); return step
RecordStep ==
    /\ pc = "record"
    /\ IF current_trajectory = <<>>
       THEN /\ Raise("RuntimeError")
            /\ UNCHANGED recorder
       ELSE /\ steps' = RecordedSteps(steps, now, thought, TheDecision, observation, result)
            /\ current_trajectory' = <<RecordedTrajectory(TheTrajectory, steps')>>
            /\ pc' = "check"
            /\ UNCHANGED error
    /\ UNCHANGED <<thought_prompt, messages, outside, unit, config, task, progress, iteration, start_time, now, locals,
                   returned, history>>

\* the step _execute_step returned to run
TheStep == steps[Len(steps)]

\* run: the task is complete: trajectory_recorder.complete(step.result); return
Complete ==
    /\ pc = "check"
    /\ _is_task_complete(TheStep)
    /\ current_trajectory' =
           <<CompletedTrajectory(TheTrajectory, TheStep.result, TRUE, now, TheTrajectory.start_time)>>
    /\ returned' = TheStep.result
    /\ pc' = "returned"
    /\ UNCHANGED <<thought_prompt, messages, outside, unit, config, task, progress, iteration, start_time, now, locals,
                   steps, error, history>>

\* the new value of iteration after a step that did not complete the task
NextIteration(i) == i + 1

\* run: progress = step.observation; iteration += 1
Continue ==
    /\ pc = "check"
    /\ ~_is_task_complete(TheStep)
    /\ progress' = TheStep.observation
    /\ iteration' = NextIteration(iteration)
    /\ pc' = "loop"
    /\ UNCHANGED <<thought_prompt, messages, outside, unit, config, task, start_time, now, locals, recorder, returned,
                   error, history>>

\* the steps of the engine, as opposed to the clock and the caller
EngineStep ==
    \/ LoopExhausted
    \/ LoopTimeout
    \/ EnterStep
    \/ \E th \in Thoughts : ThoughtReturns(th)
    \/ ThoughtRaises
    \/ DecisionRaises
    \/ \E text \in Responses : DecisionReturns(text)
    \/ FinalAnswerStep
    \/ \E outcome \in ToolOutcomes : ToolStep(outcome)
    \/ RecordStep
    \/ Complete
    \/ Continue

Next ==
    \/ \E t \in Tasks : Run(t)
    \/ Reset
    \/ \E decision \in DirectDecisions, outcome \in ToolOutcomes :
           ExecuteActionDirect(decision, outcome)
    \/ Tick
    \/ EngineStep

Spec == Init /\ [][Next]_vars

\* every model call and every tool call returns or raises, and the
\* interpreter keeps executing the run
FairSpec == Spec /\ WF_vars(EngineStep)

TypeOK ==
    /\ max_iterations \in 0..MaxIter
    /\ pc \in {"idle", "loop", "thought", "decide", "act", "record", "check", "returned", "raised"}
    /\ error \in {"", "RuntimeError", "TimeoutError", "ModelError", "KeyError", "TypeError"}
    /\ Len(current_trajectory) <= 1

(* ------------------------------ properties ---------------------------- *)

Success == current_trajectory # <<>> /\ TheTrajectory.success
Incomplete ==
    /\ current_trajectory # <<>>
    /\ ~TheTrajectory.success
    /\ TheTrajectory.end_time = Null

\* a decision of the current step is final_answer
FinalDecided == action_decision # <<>> /\ TheDecision.action = FINAL_ANSWER

\* C1: every run terminates: it executes at most max_iterations steps, for
\* every max_iterations >= 0, and once started it ends by returning or by
\* raising, provided every model call and tool call returns or raises.
C1_RunTerminates ==
    /\ [](step_execs <= max_iterations)
    /\ (Running ~> Terminal)

C1_Witness ==
    /\ pc = "raised"
    /\ error = "RuntimeError"
    /\ max_iterations >= 2
    /\ step_execs = max_iterations

\* decide_action raised instead of returning a decision for the last text
DecisionMissing == response # <<>> /\ action_decision = <<>>

\* C2: a run in which no decision is final_answer, no model call failed and
\* the timeout was not exceeded ends with the max-iterations error after
\* exactly max_iterations executed and recorded steps, and its trajectory
\* then has total_steps = max_iterations, success false and end_time null.
\* Stated for the runs in which every decision call yielded a decision.
C2_ExactExhaustion ==
    (Terminal /\ ~DecisionMissing /\ ~FinalDecided /\ ~model_failed
              /\ error # "TimeoutError")
        => /\ pc = "raised"
           /\ error = "RuntimeError"
           /\ step_execs = max_iterations
           /\ Len(steps) = max_iterations
           /\ TheTrajectory.total_steps = max_iterations
           /\ Incomplete

\* a decision text that is not a well-formed decision over the registry
Malformed(text, reg) ==
    \/ ~text.isJson
    \/ ~text.isObject
    \/ ~text.hasAction
    \/ ~text.hasInput
    \/ text.action \notin Names(reg) \cup {FINAL_ANSWER}

WellFormedFallback(d) ==
    /\ d.action = FINAL_ANSWER
    /\ d.hasInput
    /\ d.action_input.isDict
    /\ d.action_input.hasAnswer
    /\ d.action_input.answer.prefix = "Error parsing action decision"
    /\ d.action_input.answer.cause # ""

\* C3: decide_action is total: for every malformed decision text (not JSON,
\* not an object, a required key missing, an unregistered action) it returns
\* the well-formed final_answer fallback and does not raise.
C3_DecideActionTotal ==
    (response # <<>> /\ Malformed(response[1], tool_registry))
        => /\ action_decision # <<>>
           /\ WellFormedFallback(TheDecision)

ErrorSteps ==
    {i \in 1..Len(steps) :
        /\ steps[i].observation.prefix = "Error executing action"
        /\ steps[i].observation.cause \in ToolErrors}

\* the step in progress holds the folded failure and is about to be recorded
ErrorStepPending ==
    /\ pc = "record"
    /\ observation.prefix = "Error executing action"
    /\ observation.cause \in ToolErrors

C4_Contained ==
    /\ (pc = "raised" => error # "Exception")
    /\ tool_failures = Cardinality(ErrorSteps) + (IF ErrorStepPending THEN 1 ELSE 0)
    /\ (pc = "returned" /\ tool_failures > 0) =>
           /\ Success
           /\ TheStep.action = FINAL_ANSWER
           /\ \A i \in ErrorSteps : i < Len(steps)

C5_OnlyThreeFailureKinds ==
    pc = "raised" => error \in {"ModelError", "TimeoutError", "RuntimeError"}

NonFinalSteps == {i \in 1..Len(steps) : steps[i].action # FINAL_ANSWER}

\* C6: at the first final_answer step run records the step (observation
\* 'Task completed', result = action_input['answer']) while the trajectory
\* is still open, then seals it with success and final_result = step.result
\* and returns that string; the trajectory then holds all executed steps.
C6_Completion ==
    /\ (pc = "check" /\ _is_task_complete(TheStep)) =>
           /\ Incomplete
           /\ TheStep.observation = Plain("Task completed")
           /\ TheStep.result = TheStep.action_input.answer
    /\ pc = "returned" =>
           /\ Success
           /\ TheTrajectory.end_time # Null
           /\ TheStep.action = FINAL_ANSWER
           /\ TheStep.observation = Plain("Task completed")
           /\ TheStep.result = TheStep.action_input.answer
           /\ TheTrajectory.final_result = TheStep.result
           /\ returned = TheStep.result
           /\ TheTrajectory.steps = steps
           /\ Len(steps) = step_execs
           /\ NonFinalSteps = 1..(Len(steps) - 1)
           /\ TheTrajectory.total_steps = Cardinality(NonFinalSteps) + 1

C6_Witness ==
    /\ pc = "returned"
    /\ Len(steps) = 2
    /\ returned = Plain("4")

\* C7: in every state of a run's trajectory steps[i].step_number = i+1
\* (1-based here: the i-th step has number i), whatever failed on the way.
C7_StepNumbering ==
    /\ \A i \in 1..Len(steps) : steps[i].step_number = i
    /\ current_trajectory # <<>> =>
           \A i \in 1..Len(TheTrajectory.steps) : TheTrajectory.steps[i].step_number = i

C7_Witness ==
    /\ Len(steps) >= 2
    /\ tool_failures >= 1
    /\ TheTrajectory.steps = steps

NotJson == response # <<>> /\ ~response[1].isJson

C8_Degraded ==
    NotJson =>
        /\ pc \in {"act", "record", "check", "returned"}
        /\ FinalDecided
        /\ pc \in {"check", "returned"} =>
               /\ TheStep.action = FINAL_ANSWER
               /\ TheStep.step_number = Len(steps)
               /\ Len(steps) = step_execs
        /\ pc = "returned" =>
               /\ returned.prefix = "Error parsing action decision"
               /\ Success

\* C8: a decision text that is not JSON does not make run raise: run
\* returns a string containing 'Error parsing action decision', the step of
\* that iteration is recorded as final_answer and is the last one, and the
\* trajectory is completed with success.
C8_GracefulDegradation ==
    /\ []C8_Degraded
    /\ (NotJson ~> (pc = "returned"))

C8_Witness ==
    /\ NotJson
    /\ pc = "returned"
    /\ Len(steps) = 2

C9_AfterModelFailure ==
    model_failed =>
        /\ pc = "raised"
        /\ error = "ModelError"
        /\ Incomplete
        /\ returned = NoneText
        /\ Len(steps) = step_execs - 1
        /\ TheTrajectory.steps = steps
        /\ action_decision = <<>>
        /\ tool_calls <= Len(steps)

C9_ModelFailureStep ==
    (model_failed' /\ ~model_failed) =>
        /\ pc \in {"thought", "decide"}
        /\ UNCHANGED <<recorder, tool_calls, returned>>

\* C9: when the thought call or the decision call of a step raises, the
\* exception leaves run at once: the step in progress is not recorded, no
\* tool runs for it, complete() is not called, and the trajectory stays
\* incomplete with the steps recorded before.
C9_TransportFailure ==
    /\ []C9_AfterModelFailure
    /\ [][C9_ModelFailureStep]_vars

C9_Witness ==
    /\ model_failed
    /\ Len(steps) >= 1
    /\ model_calls = 2 * Len(steps) + 2

C10_AfterTimeout ==
    (pc = "raised" /\ error = "TimeoutError") =>
        /\ Incomplete
        /\ returned = NoneText
        /\ now - start_time > timeout_seconds
        /\ Len(steps) = step_execs
        /\ model_calls = 2 * step_execs
        /\ tool_calls <= step_execs

C10_LoopBoundary ==
    (pc = "loop" /\ pc' # "loop" /\ iteration < max_iterations) =>
        IF now - start_time > timeout_seconds
        THEN /\ pc' = "raised"
             /\ error' = "TimeoutError"
             /\ error' # "RuntimeError"
             /\ UNCHANGED <<recorder, model_calls, tool_calls, returned>>
        ELSE /\ pc' = "thought"
             /\ step_execs' = step_execs + 1

\* C10: at the top of an iteration with iteration < max_iterations, run
\* raises TimeoutError, before any model or tool call of that iteration and
\* leaving the trajectory incomplete, exactly when the elapsed time
\* strictly exceeds timeout_seconds; otherwise the step is executed.
\* TimeoutError is not the max-iterations error.
C10_TimeoutAtLoopBoundary ==
    /\ []C10_AfterTimeout
    /\ [][C10_LoopBoundary]_vars

C10_Witness ==
    /\ pc = "raised"
    /\ error = "TimeoutError"
    /\ Len(steps) >= 1
    /\ now - start_time = timeout_seconds + 1

\* the string f"Error executing action {action}: {str(e)}"
FoldedFailure(name, message) == Text("Error executing action", name, message, "")

C11_Folded ==
    /\ \A i \in ErrorSteps :
           /\ steps[i].observation = FoldedFailure(steps[i].action, steps[i].observation.cause)
           /\ steps[i].result = steps[i].observation
           /\ steps[i].step_number = i
    /\ ErrorStepPending =>
           /\ observation = FoldedFailure(TheDecision.action, observation.cause)
           /\ result = observation
    /\ tool_failures = Cardinality(ErrorSteps) + (IF ErrorStepPending THEN 1 ELSE 0)
    /\ (pc = "loop" /\ iteration > 0) => progress = TheStep.observation
    /\ \A i \in 1..Len(dispatch) :
           get_tool_raises(tool_registry, dispatch[i].decision.action) =>
               /\ ~dispatch[i].called
               /\ dispatch[i].return.raises = ""
               /\ dispatch[i].return.text =
                      Text("Error executing action", dispatch[i].decision.action,
                           "Tool not found", dispatch[i].decision.action)

C11_FoldStep ==
    (pc = "act" /\ tool_failures' = tool_failures + 1) =>
        /\ pc' = "record"
        /\ error' = ""
        /\ \E m \in ToolErrors : observation' = FoldedFailure(TheDecision.action, m)
        /\ result' = observation'

\* C11: when the registry lookup or tool.execute raises for action <name>
\* with <message>, observation and result of the step are both 'Error
\* executing action <name>: <message>', the step is recorded like any other
\* and the loop goes on to the next iteration with progress set to that
\* string; a tool that is not found on dispatch is folded the same way.
C11_ToolFailureFolded ==
    /\ []C11_Folded
    /\ [][C11_FoldStep]_vars
    /\ (ErrorStepPending ~>
           (pc = "loop" /\ iteration > 0 /\ TheStep.observation.prefix = "Error executing action"
                       /\ progress = TheStep.observation))

C11_Witness ==
    /\ pc = "raised"
    /\ error = "RuntimeError"
    /\ Len(steps) >= 1
    /\ progress = FoldedFailure("calculator", "Tool error")
    /\ TheStep.result = progress
    /\ dispatch # <<>>
    /\ dispatch[1].return.text.cause = "Tool not found"

\* the run has been started and has not entered a step yet
JustStarted == pc = "loop" /\ step_execs = 0

\* what run leaves behind when it starts on a newly constructed engine
FreshlyStarted ==
    /\ current_trajectory = <<StartTrajectory(task, start_time)>>
    /\ steps = <<>>
    /\ progress = EmptyText
    /\ iteration = 0
    /\ locals = <<"", <<>>, EmptyText, EmptyText, <<>>>>
    /\ returned = NoneText
    /\ error = ""
    /\ model_calls = 0
    /\ tool_calls = 0

C13_AfterReset ==
    /\ LastCall = "reset" => (get_trajectory = <<>> /\ steps = <<>>)
    /\ JustStarted => FreshlyStarted
    /\ (LastCall = "run" /\ pc # "idle") =>
           /\ Len(steps) <= step_execs
           /\ \A i \in 1..Len(steps) : steps[i].step_number = i
           /\ TheTrajectory.steps = steps
           /\ TheTrajectory.task = task
           /\ (Success \/ TheTrajectory.final_result # NoneText) => pc = "returned"

C13_ResetTwice ==
    (LastCall = "reset" /\ calls' # calls /\ calls'[Len(calls')] = "reset") =>
        UNCHANGED <<unit, config, pc, task, progress, iteration, start_time, now,
                    locals, recorder, returned, error, history, messages,
                    dispatch>>

\* C13: reset() on an engine that never ran, that completed a run or whose
\* run failed leaves get_trajectory() None; a second reset changes nothing;
\* and the next run starts exactly as on a new engine: no step, success or
\* final_result of the earlier run is carried over and its first step has
\* number 1.
C13_IdempotentReset ==
    /\ []C13_AfterReset
    /\ [][C13_ResetTwice]_vars

C13_Witness ==
    /\ calls = <<"reset", "run">>
    /\ start_time >= 1
    /\ pc = "returned"
    /\ Len(steps) = 1
    /\ steps[1].step_number = 1
    /\ TheTrajectory.total_steps = 1

\* the deadline has passed while the step in flight is about to be recorded
LateStep == pc = "record" /\ TimedOut(now, start_time, timeout_seconds)

C18_Late ==
    /\ pc \in {"thought", "decide", "act", "record"} => Len(steps) = step_execs - 1
    /\ pc \in {"loop", "check", "returned"} => Len(steps) = step_execs
    /\ error = "TimeoutError" => Len(steps) = step_execs
    /\ pc = "returned" =>
           /\ Success
           /\ returned = TheStep.result
           /\ TheTrajectory.final_result = TheStep.result

C18_Step ==
    /\ step_execs' = step_execs + 1 => ~TimedOut(now, start_time, timeout_seconds)
    /\ (pc # "raised" /\ pc' = "raised" /\ error' = "TimeoutError") =>
           (pc = "loop" /\ UNCHANGED recorder)
    /\ (pc = "loop" /\ pc' # "loop" /\ TimedOut(now, start_time, timeout_seconds)) =>
           pc' = "raised"

\* C18: a step that starts within timeout_seconds is executed to the end and
\* recorded even if the deadline passes during its model calls or its tool
\* call: TimeoutError is raised at the top of the loop only, so only the
\* next iteration is refused, and a late final_answer step still makes run
\* return its result and complete the trajectory.
C18_NoMidStepCancellation ==
    /\ []C18_Late
    /\ [][C18_Step]_vars
    /\ ((LateStep /\ FinalDecided) ~> (pc = "returned" /\ Success))
    /\ ((LateStep /\ ~FinalDecided) ~>
           (pc = "raised" /\ error \in {"TimeoutError", "RuntimeError"}
                          /\ Len(steps) = step_execs))

C18_Witness ==
    /\ pc = "returned"
    /\ TimedOut(now, start_time, timeout_seconds)
    /\ Success
    /\ TheTrajectory.end_time - TheTrajectory.start_time > timeout_seconds
    /\ Len(steps) = 2

\* the actions decide_action may return over registry reg
Admissible(reg) == Names(reg) \cup {FINAL_ANSWER}

\* the last decision text names an action decide_action does not admit
NamesOther ==
    /\ response # <<>>
    /\ response[1].isJson /\ response[1].isObject /\ response[1].hasAction
    /\ response[1].action \notin Admissible(tool_registry)

C19_Admitted ==
    /\ \A i \in 1..Len(steps) : steps[i].action \in Admissible(tool_registry)
    /\ \A i \in 1..Len(action_decision) :
           action_decision[i].action \in Admissible(tool_registry)
    /\ (NamesOther /\ pc # "raised") =>
           /\ pc \in {"act", "record", "check", "returned"}
           /\ TheDecision.action = FINAL_ANSWER
           /\ TheDecision.action_input.answer.prefix = "Error parsing action decision"
           /\ TheDecision.action_input.answer.name = response[1].action
           /\ tool_calls <= Len(steps)
           /\ pc \in {"check", "returned"} => TheStep.action = FINAL_ANSWER

C19_Dispatch ==
    /\ Running => tool_registry' = tool_registry
    /\ tool_calls' = tool_calls + 1 =>
           /\ pc = "act"
           /\ TheDecision.action \in Names(tool_registry)
           /\ response[1].action = TheDecision.action

\* C19: every decision decide_action returns, and so the action of every
\* recorded step, is a name registered at decision time or 'final_answer';
\* a decision text naming another action is replaced by the final_answer
\* fallback, is never dispatched to a tool and is never recorded under
\* that name.
C19_ActionAdmissible ==
    /\ []C19_Admitted
    /\ [][C19_Dispatch]_vars

C19_Witness ==
    /\ NamesOther
    /\ pc = "returned"
    /\ Len(steps) = 2
    /\ steps[1].action = "calculator"
    /\ steps[2].action = FINAL_ANSWER
    /\ steps[2].result.name = "web_search"

\* model calls made by the step in flight
StepModelCalls == model_calls - 2 * Len(steps)

\* the order of the events of one step, read off the position of the run
C20_Order ==
    /\ \A i \in 1..Len(messages) : Len(messages) = 1 /\ messages[i].role = "user"
    /\ pc = "thought" => StepModelCalls = 0
    /\ pc = "decide" =>
           /\ StepModelCalls = 1
           /\ messages[1].content = ThoughtPrompt
           /\ action_decision = <<>>
    /\ pc \in {"act", "record"} =>
           /\ StepModelCalls = 2
           /\ messages[1].content = ActionPrompt
           /\ action_decision # <<>>
    /\ pc \in {"loop", "check", "returned"} => StepModelCalls = 0
    /\ tool_calls <= Cardinality(NonFinalSteps)
                       + (IF pc = "record" /\ ~FinalDecided THEN 1 ELSE 0)
    /\ pc \in {"thought", "decide", "act"} => Len(steps) = step_execs - 1

\* C20: each executed step makes exactly two model calls, each with one
\* user-role message, the thought call before the decision call; the tool
\* runs at most once, after the decision call and never for final_answer;
\* the step is recorded after all of these; and a run that recorded n steps
\* without a transport error has made exactly 2n model calls.
C20_EventOrder ==
    /\ C20_Order
    /\ (Terminal /\ ~model_failed) => model_calls = 2 * Len(steps)


(* ------------------------- C21: RunState ------------------------------ *)

\* a step is in flight: _execute_step has rendered its prompt and run has
\* not yet looked at the step it returned
InStep == pc \in {"thought", "decide", "act", "record", "check"}

\* the step that immediately precedes the one of the current iteration
PrecedingStep == steps[iteration]

\* progress and iteration in every state of a run
C21_State ==
    Running =>
        /\ iteration <= max_iterations
        /\ pc = "loop" => iteration = Len(steps)
        /\ iteration = 0 => progress = EmptyText
        /\ iteration > 0 => /\ iteration <= Len(steps)
                            /\ ~_is_task_complete(PrecedingStep)
                            /\ progress = PrecedingStep.observation
        /\ InStep =>
              /\ Len(thought_prompt) = 1
              /\ thought_prompt[1].task = task
              /\ thought_prompt[1].progress =
                    IF progress = EmptyText THEN Plain("No progress yet")
                    ELSE PrecedingStep.observation

\* iteration changes only when a run starts it at 0 and when a non-final
\* step has been looked at, by one; progress changes only with it
C21_Update ==
    /\ iteration' # iteration =>
          \/ iteration' = 0
          \/ /\ pc = "check" /\ ~_is_task_complete(TheStep)
             /\ iteration' = iteration + 1
             /\ progress' = TheStep.observation
    /\ progress' # progress =>
          \/ progress' = EmptyText /\ iteration' = 0
          \/ pc = "check" /\ iteration' = iteration + 1
    /\ (pc = "check" /\ pc' = "loop") => iteration' = iteration + 1
    /\ (pc # "loop" /\ pc' = "loop" /\ pc # "check") =>
          iteration' = 0 /\ progress' = EmptyText

\* C21: progress is empty at run start and after every non-final step is
\* that step's observation; iteration starts at 0, grows by one per non-final
\* step, equals the number of recorded steps at the loop boundary and never
\* exceeds max_iterations; the thought prompt of an iteration is rendered
\* from the progress the preceding step left, 'No progress yet' when empty.
C21_RunStateUpdate == []C21_State /\ [][C21_Update]_vars

\* the second step of a run is in flight: its prompt shows the observation
\* of the first step
C21_Witness ==
    /\ pc = "decide"
    /\ iteration = 1
    /\ Len(steps) = 1
    /\ progress = steps[1].observation
    /\ progress # EmptyText
    /\ thought_prompt = <<generate_thought_prompt(task, steps[1].observation,
                                                  get_available_tools(tool_registry))>>

(* --------------------- C22: final_answer without answer --------------- *)

\* the parsed decision is final_answer and its action_input has no 'answer'
LacksAnswer ==
    /\ action_decision # <<>>
    /\ TheDecision.action = FINAL_ANSWER
    /\ ~(TheDecision.hasInput /\ TheDecision.action_input.isDict
         /\ TheDecision.action_input.hasAnswer)

\* the trajectory has not been sealed by complete()
NotCompleted ==
    /\ current_trajectory # <<>>
    /\ TheTrajectory.end_time = Null
    /\ ~TheTrajectory.success
    /\ TheTrajectory.final_result = NoneText

\* such a decision is never past the final_answer branch, and the run it
\* ended raised, recorded no step for it and returned nothing
C22_State ==
    LacksAnswer =>
        /\ pc \in {"act", "raised"}
        /\ Len(steps) = step_execs - 1
        /\ \A i \in 1..Len(steps) : steps[i].action # FINAL_ANSWER
        /\ NotCompleted
        /\ returned = NoneText
        /\ pc = "raised" => error \in {"KeyError", "TypeError"}

\* the final_answer branch, taken with such a decision, raises and touches
\* neither the recorder nor the returned value
C22_Step ==
    (pc = "act" /\ LacksAnswer /\ pc' # pc) =>
        /\ pc' = "raised"
        /\ error' = "KeyError"
        /\ UNCHANGED <<recorder, returned, observation, result>>

\* C22: a final_answer decision whose action_input lacks 'answer' gets no
\* substituted answer: the step fails with an error that leaves run, the
\* step is not recorded, complete() is not called and run returns nothing.
C22_MissingAnswerPropagates == []C22_State /\ [][C22_Step]_vars

\* the second step of a run decided final_answer without an answer and the
\* run raised KeyError with one step recorded
C22_Witness ==
    /\ pc = "raised"
    /\ error = "KeyError"
    /\ LacksAnswer
    /\ response = <<RFinalNoAnswer>>
    /\ step_execs = 2
    /\ Len(steps) = 1
    /\ NotCompleted

(* --------------------- C23: trajectory lifecycle ---------------------- *)

\* the trajectory start(task) creates at time
FreshTrajectory(t, time) ==
    [task |-> t, start_time |-> time, end_time |-> Null, steps |-> <<>>,
     success |-> FALSE, final_result |-> NoneText, total_steps |-> 0,
     duration_seconds |-> Null]

\* what the recorder held before start: nothing, a trajectory that was never
\* completed, or a completed one
PriorState ==
    IF current_trajectory = <<>> THEN "none"
    ELSE IF TheTrajectory.end_time = Null THEN "incomplete"
    ELSE "completed"

\* a run is issued
RunIssued == ~Running /\ pc' = "loop"

\* whatever the recorder held, the run issued starts on a fresh trajectory
\* and an empty step list
C23_Start ==
    RunIssued =>
        /\ PriorState \in {"none", "incomplete", "completed"}
        /\ current_trajectory' = <<FreshTrajectory(task', now)>>
        /\ steps' = <<>>
        /\ returned' = NoneText
        /\ error' = ""

\* the recorder holds at most one trajectory, and what it holds during and
\* after a run is that run's: its task and no more steps than the run made
C23_Own ==
    /\ Len(current_trajectory) <= 1
    /\ (Running \/ Terminal) =>
          /\ Len(current_trajectory) = 1
          /\ TheTrajectory.task = task
          /\ TheTrajectory.start_time = start_time
          /\ Len(steps) <= step_execs
          /\ TheTrajectory.steps = steps
          /\ \A i \in 1..Len(steps) : steps[i].timestamp >= start_time

\* C23: start(task) yields a fresh live trajectory whatever the recorder
\* held (nothing, an incomplete or a completed trajectory), so a recorder
\* has at most one live trajectory, and a run started after a run that
\* completed, timed out or was exhausted carries over no step or result
\* from it, with no reset() in between.
C23_FreshTrajectory == []C23_Own /\ [][C23_Start]_vars

\* a run has just been issued after another run, with no reset in between
C23_Witness ==
    /\ calls = <<"run", "run">>
    /\ pc = "loop"
    /\ iteration = 0
    /\ now >= 1
    /\ current_trajectory = <<FreshTrajectory(task, now)>>
    /\ steps = <<>>

(* --------------------- C26: success and sealing ----------------------- *)

\* the final_answer steps of a step list
FinalSteps(ss) == {i \in 1..Len(ss) : ss[i].action = FINAL_ANSWER}

\* a successful trajectory is sealed and ends in the final_answer step whose
\* result it carries
SealedByFinalAnswer(traj) ==
    /\ traj.end_time # Null
    /\ traj.final_result # NoneText
    /\ traj.duration_seconds # Null
    /\ Len(traj.steps) >= 1
    /\ traj.steps[Len(traj.steps)].action = FINAL_ANSWER
    /\ traj.steps[Len(traj.steps)].result = traj.final_result

MaxRegs == 3

\* the names and the tool objects a caller registers
RegNames == {"calculator", "test_tool"}
RegTools == {"tool1", "tool2"}

\* the variables of the engine, which the registry does not touch
frame == <<pc, task, progress, iteration, start_time, now, locals, returned,
           error, history, messages, thought_prompt, calls, dispatch>>
engine == <<max_iterations, timeout_seconds, frame, recorder>>

\* what the operations of one object leave alone
not_reg == <<engine, calc_vars, perf_vars, suite_vars, rec_vars>>
not_calc == <<engine, tool_registry, reg_vars, perf_vars, suite_vars, rec_vars>>
not_perf == <<engine, tool_registry, reg_vars, calc_vars, suite_vars, rec_vars>>
not_suite == <<config, frame, reg_vars, calc_vars, perf_vars, rec_vars>>
not_rec == <<config, pc, task, progress, iteration, start_time, locals, returned,
             error, history, messages, thought_prompt, calls, dispatch,
             reg_vars, calc_vars, perf_vars, suite_vars>>

\* ToolRegistry(): self.tools = {}
RegInit ==
    /\ max_iterations = 0
    /\ timeout_seconds = 0
    /\ tool_registry = <<>>
    /\ EngineIdle
    /\ UnitIdle

\* registry.register_tool(name, tool)
RegisterTool(name, tool) ==
    /\ Len(reg_log) < MaxRegs
    /\ tool_registry' = register_tool(tool_registry, name, tool)
    /\ reg_log' = Append(reg_log, Entry(name, tool))
    /\ got' = <<>>
    /\ UNCHANGED not_reg

\* registry.get_tool(name): returns the tool or raises; self.tools is only read
GetTool(name) ==
    /\ got' = <<[name |-> name, return |-> get_tool(tool_registry, name)]>>
    /\ UNCHANGED <<tool_registry, reg_log, not_reg>>

RegNext ==
    \/ \E name \in RegNames, tool \in RegTools : RegisterTool(name, tool)
    \/ \E name \in RegNames \cup {"nonexistent_tool"} : GetTool(name)

RegSpec == RegInit /\ [][RegNext]_vars

\* the names passed to register_tool so far
RegisteredNames == {reg_log[i].name : i \in 1..Len(reg_log)}

\* the tool of the last register_tool call made with name
LastRegistered(name) ==
    LET last == CHOOSE i \in 1..Len(reg_log) :
                    /\ reg_log[i].name = name
                    /\ \A j \in (i + 1)..Len(reg_log) : reg_log[j].name # name
    IN reg_log[last].tool

C14_Found ==
    /\ Names(tool_registry) = RegisteredNames
    /\ \A i \in 1..Len(got) :
           IF got[i].name \in RegisteredNames
           THEN /\ got[i].return.raises = ""
                /\ got[i].return.tool = LastRegistered(got[i].name)
           ELSE /\ got[i].return.raises = "ValueError"
                /\ got[i].return.message = Text("Tool not found", got[i].name, "", "")

C14_Kept ==
    /\ Names(tool_registry) \subseteq Names(tool_registry')
    /\ (got' # <<>> /\ reg_log' = reg_log) => tool_registry' = tool_registry

\* C14: after any sequence of register_tool calls get_tool(name) returns the
\* tool most recently registered under name and raises ValueError 'Tool not
\* found: <name>' exactly when name was never registered; a failed get_tool
\* leaves the registry unchanged and no name is ever removed.
C14_RegistryLookup ==
    /\ []C14_Found
    /\ [][C14_Kept]_vars

C14_Witness ==
    /\ Len(reg_log) = 3
    /\ reg_log[1].name = reg_log[3].name
    /\ reg_log[1].tool # reg_log[3].tool
    /\ reg_log[2].name # reg_log[1].name
    /\ got # <<>>
    /\ got[1].name = reg_log[1].name
    /\ got[1].return.tool = reg_log[3].tool

\* the names of a call sequence in the order of their first registration
RECURSIVE FirstRegistrations(_)
FirstRegistrations(log) ==
    IF log = <<>> THEN <<>>
    ELSE LET before == FirstRegistrations(SubSeq(log, 1, Len(log) - 1))
             name == log[Len(log)].name
         IN IF \E i \in 1..Len(before) : before[i] = name
            THEN before ELSE Append(before, name)

C15_Listed ==
    /\ get_available_tools(tool_registry) = FirstRegistrations(reg_log)
    /\ reg_log = <<>> => get_available_tools(tool_registry) = <<>>
    /\ \A i, j \in 1..Len(tool_registry) :
           tool_registry[i].name = tool_registry[j].name => i = j

C15_Again ==
    (Len(reg_log') = Len(reg_log) + 1
         /\ reg_log'[Len(reg_log')].name \in Names(tool_registry)) =>
        get_available_tools(tool_registry') = get_available_tools(tool_registry)

\* C15: get_available_tools() lists every registered name exactly once, in
\* the order of first registration, and is empty for a new registry;
\* registering a name again changes neither the length of the list nor the
\* position of that name.
C15_RegistryListing ==
    /\ []C15_Listed
    /\ [][C15_Again]_vars

C15_Witness ==
    /\ Len(reg_log) = 3
    /\ reg_log[1].name = "test_tool"
    /\ reg_log[2].name = "calculator"
    /\ reg_log[3].name = "test_tool"
    /\ get_available_tools(tool_registry) = <<"test_tool", "calculator">>


(* ------------------------- CalculatorTool ----------------------------- *)

\* the operations execute dispatches on
KnownOperations ==
    {"add", "subtract", "multiply", "divide", "power", "sqrt", "evaluate"}

\* the operation names a caller passes; "None" is a call without the key
\* 'operation', for which kwargs.get returns None
CalcOperations == KnownOperations \cup {"invalid", "None"}
CalcNumbers == {-1, 0, 2}

\* an expression text, by what _evaluate_expression finds in it: whether all
\* its characters are allowed, and what eval raises ("" if nothing) or returns
Expression(text, allowed, raises, value) ==
    [text |-> text, allowed |-> allowed, raises |-> raises, value |-> value]
CalcExpressions ==
    {Expression("2 + 3 * 4", TRUE, "", 14),
     Expression("2 + ", TRUE, "invalid syntax", 0),
     Expression("1 / 0", TRUE, "division by zero", 0),
     Expression("abc", FALSE, "", 0)}

\* the keyword arguments of one execute call: the operation, whether the
\* operands of that operation are supplied, and the operands
CalcArgs ==
    [operation : CalcOperations, given : BOOLEAN, a : CalcNumbers,
     b : CalcNumbers, expression : CalcExpressions]

\* what execute hands back: a number (kept as the operation applied to its
\* operands where Python yields a float) or a string
Value(kind, x, y, text) == [kind |-> kind, x |-> x, y |-> y, text |-> text]
Number(n) == Value("number", n, 1, EmptyText)
String(text) == Value("string", 0, 1, text)
NoValue == Value("none", 0, 1, EmptyText)

Raised(class, message) == [raises |-> class, message |-> message, value |-> NoValue]
Returned(value) == [raises |-> "", message |-> EmptyText, value |-> value]

RECURSIVE Pow(_, _)
Pow(base, exponent) == IF exponent = 0 THEN 1 ELSE base * Pow(base, exponent - 1)

\* the body of the try block of execute
CalcTry(args) ==
    IF args.operation \notin KnownOperations
    THEN Raised("ValueError", Text("Unknown calculation operation", args.operation, "", ""))
    ELSE IF ~args.given
    THEN Raised("KeyError", Plain("missing operand"))
    ELSE CASE args.operation = "add" -> Returned(Number(args.a + args.b))
           [] args.operation = "subtract" -> Returned(Number(args.a - args.b))
           [] args.operation = "multiply" -> Returned(Number(args.a * args.b))
           [] args.operation = "divide" ->
                  IF args.b = 0 THEN Raised("ValueError", Plain("Division by zero"))
                  ELSE Returned(Value("quotient", args.a, args.b, EmptyText))
           [] args.operation = "power" ->
                  IF args.b >= 0 THEN Returned(Number(Pow(args.a, args.b)))
                  ELSE IF args.a = 0
                  THEN Raised("ZeroDivisionError", Plain("0.0 cannot be raised to a negative power"))
                  ELSE Returned(Value("power", args.a, args.b, EmptyText))
           [] args.operation = "sqrt" ->
                  IF args.a < 0
                  THEN Raised("ValueError", Plain("Cannot calculate square root of negative number"))
                  ELSE Returned(Value("root", args.a, 1, EmptyText))
           [] args.operation = "evaluate" ->
                  IF ~args.expression.allowed
                  THEN Raised("ValueError", Plain("Expression contains invalid characters"))
                  ELSE IF args.expression.raises # ""
                  THEN Raised("ValueError",
                              Text("Error evaluating expression", "", args.expression.raises, ""))
                  ELSE Returned(Number(args.expression.value))

\* CalculatorTool.execute: except Exception turns whatever the try block
\* raised, the ValueError of the else branch included, into the returned
\* string f"Calculation error: {str(e)}"
execute(args) ==
    LET r == CalcTry(args) IN
    IF r.raises = "" THEN r
    ELSE Returned(String(Text("Calculation error", r.message.name,
                              IF r.message.prefix # "" THEN r.message.prefix
                              ELSE r.message.body,
                              r.message.cause)))

\* a caller builds the keyword arguments of a call
CalcInit ==
    /\ max_iterations = 0
    /\ timeout_seconds = 0
    /\ tool_registry = <<>>
    /\ EngineIdle
    /\ RegIdle
    /\ PerfIdle
    /\ SuiteIdle
    /\ RecIdle
    /\ calc_args \in {<<args>> : args \in CalcArgs}
    /\ calc_return = <<>>

\* tool.execute(**kwargs) is called and returns or raises
CalcExecute ==
    /\ calc_args # <<>>
    /\ calc_return = <<>>
    /\ calc_return' = <<execute(calc_args[1])>>
    /\ UNCHANGED <<calc_args, not_calc>>

CalcNext == CalcExecute

CalcSpec == CalcInit /\ [][CalcNext]_vars

\* an arithmetic failure inside a known operation
ArithmeticFailure(args) ==
    /\ args.given
    /\ \/ args.operation = "divide" /\ args.b = 0
       \/ args.operation = "evaluate"
              /\ (~args.expression.allowed \/ args.expression.raises # "")

\* C16: execute called with an operation outside add, subtract, multiply,
\* divide, power, sqrt, evaluate raises ValueError 'Unknown calculation
\* operation: <operation>' to its caller, whereas an arithmetic failure
\* inside a known operation (division by zero, an invalid expression) does
\* not raise and is returned as a string containing 'Calculation error'.
C16_UnknownOperationRaises ==
    \A i \in 1..Len(calc_return) :
        /\ calc_args[1].operation \notin KnownOperations =>
               /\ calc_return[i].raises = "ValueError"
               /\ calc_return[i].message =
                      Text("Unknown calculation operation", calc_args[1].operation, "", "")
        /\ ArithmeticFailure(calc_args[1]) =>
               /\ calc_return[i].raises = ""
               /\ calc_return[i].value.kind = "string"
               /\ calc_return[i].value.text.prefix = "Calculation error"

\* what the code does for every failure: the string, never an exception
C16_AlwaysReturns ==
    \A i \in 1..Len(calc_return) :
        /\ calc_return[i].raises = ""
        /\ (calc_args[1].operation \notin KnownOperations \/ ArithmeticFailure(calc_args[1])) =>
               /\ calc_return[i].value.kind = "string"
               /\ calc_return[i].value.text.prefix = "Calculation error"


(* ------------------------- PerformanceTracker ------------------------- *)

\* record_api_call calls kept in one tracker between two resets
MaxCalls == 3

\* the token counts a call reports
PromptTokens == {0, 5}
CompletionTokens == {0, 3}

\* total_tokens computed from the prompt tokens alone
TotalTokensPromptOnly(prompt, completion) == prompt

\* record_api_call: total_tokens = prompt_tokens + completion_tokens
TotalTokens(prompt, completion) == prompt + completion

\* the APICallRecord record_api_call builds
APICallRecord(prompt, completion, success) ==
    [token_usage |-> TokenUsage(prompt, completion, TotalTokens(prompt, completion)),
     success |-> success]

\* record_api_call: the += updates of self.total_token_usage
AddUsage(usage, prompt, completion) ==
    TokenUsage(usage.prompt_tokens + prompt,
               usage.completion_tokens + completion,
               usage.total_tokens + TotalTokens(prompt, completion))

\* record_api_call, the try block that saves the call: building the row
\* evaluates asdict, a name the module does not import, so the block raises
\* NameError before db.save_api_call, whatever the database would do
SaveRaises(db_available) == TRUE

\* PerformanceTracker.get_statistics, the counters of the returned dict
get_statistics(records, usage) ==
    LET total_calls == Len(records)
        successful_calls == Cardinality({i \in 1..Len(records) : records[i].success})
    IN [total_api_calls |-> total_calls,
        successful_calls |-> successful_calls,
        failed_calls |-> total_calls - successful_calls,
        total_token_usage |-> usage]

\* PerformanceTracker()
PerfInit ==
    /\ max_iterations = 0
    /\ timeout_seconds = 0
    /\ tool_registry = <<>>
    /\ EngineIdle
    /\ UnitIdle

\* tracker.record_api_call(...): the record is appended and the totals are
\* updated before the save is tried; the except around the save swallows
\* its exception
RecordApiCall(prompt, completion, success, db_available) ==
    /\ Len(api_calls) < MaxCalls
    /\ total_token_usage' = AddUsage(total_token_usage, prompt, completion)
    /\ api_calls' = Append(api_calls, APICallRecord(prompt, completion, success))
    /\ db_failed' = SaveRaises(db_available)
    /\ since_reset' = since_reset + 1
    /\ UNCHANGED <<was_reset, not_perf>>

\* tracker.reset(): self.api_calls.clear(); self.total_token_usage = TokenUsage()
PerfReset ==
    /\ api_calls' = <<>>
    /\ total_token_usage' = TokenUsage(0, 0, 0)
    /\ since_reset' = 0
    /\ was_reset' = TRUE
    /\ UNCHANGED <<db_failed, not_perf>>

PerfNext ==
    \/ \E prompt \in PromptTokens, completion \in CompletionTokens,
          success \in BOOLEAN, db_available \in BOOLEAN :
           RecordApiCall(prompt, completion, success, db_available)
    \/ PerfReset

PerfSpec == PerfInit /\ [][PerfNext]_vars

RECURSIVE SumUsage(_)
SumUsage(records) ==
    IF records = <<>> THEN TokenUsage(0, 0, 0)
    ELSE LET rest == SumUsage(Tail(records))
             u == Head(records).token_usage
         IN TokenUsage(rest.prompt_tokens + u.prompt_tokens,
                       rest.completion_tokens + u.completion_tokens,
                       rest.total_tokens + u.total_tokens)

Statistics == get_statistics(api_calls, total_token_usage)

C17_Accounted ==
    /\ Statistics.total_api_calls = since_reset
    /\ \A i \in 1..Len(api_calls) :
           api_calls[i].token_usage.total_tokens =
               api_calls[i].token_usage.prompt_tokens
                   + api_calls[i].token_usage.completion_tokens
    /\ Statistics.total_token_usage = SumUsage(api_calls)
    /\ Statistics.total_token_usage.total_tokens =
           Statistics.total_token_usage.prompt_tokens
               + Statistics.total_token_usage.completion_tokens
    /\ Statistics.successful_calls + Statistics.failed_calls = Statistics.total_api_calls
    /\ Statistics.failed_calls = Cardinality({i \in 1..Len(api_calls) : ~api_calls[i].success})
    /\ since_reset = 0 =>
           /\ Statistics.total_api_calls = 0
           /\ Statistics.successful_calls = 0
           /\ Statistics.failed_calls = 0
           /\ Statistics.total_token_usage = TokenUsage(0, 0, 0)

C17_ResetStep ==
    (since_reset' = 0 /\ was_reset') =>
        /\ api_calls' = <<>>
        /\ total_token_usage' = TokenUsage(0, 0, 0)

\* C17: after any sequence of record_api_call and reset, total_api_calls is
\* the number of record_api_call calls since the last reset, each record has
\* total_tokens = prompt_tokens + completion_tokens, total_token_usage is the
\* field-wise sum over those records, successful_calls + failed_calls =
\* total_api_calls, and reset returns every counter to zero, also when
\* saving a call to the database failed.
C17_TrackerAccounting ==
    /\ []C17_Accounted
    /\ [][C17_ResetStep]_vars

C17_Witness ==
    /\ was_reset
    /\ db_failed
    /\ since_reset = 2
    /\ Statistics.failed_calls = 1
    /\ Statistics.total_token_usage = TokenUsage(5, 6, 11)


(* --------------------- AgentRunner.run_suite -------------------------- *)

\* test cases handed to one run_suite call, and the widest pool followed
MaxCases == 2
MaxConcurrency == 2

\* "max_iterations": 5 of _create_ai_agent_config
RUNNER_MAX_ITERATIONS == 5
\* config.get("timeout_seconds", 30) of AgentRunner.__init__
RUNNER_TIMEOUT_SECONDS == 30

\* the runner classes, and the storage classes their callers build: the
\* function run_suite builds BaseStore, run_suite_simple builds JSONLStore
Runners == {"AgentRunner", "SimpleRunner"}
Stores == {"JSONLStore", "BaseStore"}

\* BaseStore.append raises NotImplementedError; JSONLStore.append writes
AppendRaises(st) == st = "BaseStore"

\* the prompts of the test cases: the first case has its own
SuitePrompt(k) == IF k = 1 THEN "task1" ELSE "task2"

\* the texts the model returns to the second call of a step of a suite run
SuiteResponses == {RFinal("4"), RNonJson, RNotObject}

\* the cases of the suite, by position in test_cases
Cases == 1..Len(test_cases)

\* every case k of the suite holds the value v
AllCases(n, v) == [k \in 1..n |-> v]

\* how engine.run ends: it returns text, or exception kind e leaves it
RunReturned(text) == [raises |-> "", text |-> text]
RunRaised(e) == [raises |-> e, text |-> EmptyText]

\* the step object _execute_step builds
SuiteStep(th, decision, res) ==
    [thought |-> th, action |-> decision.action, decision |-> decision,
     observation |-> Plain("Task completed"), result |-> res]

\* ExecutionRecord, as far as the status goes
ExecutionRecord(c, status) == [test_case_id |-> c, status |-> status]

\* what gather holds for a case: the record _run_single_case returned, or
\* the exception that left it
GotRecord(rec) == [exception |-> FALSE, record |-> rec]
GotException == [exception |-> TRUE, record |-> ExecutionRecord(0, "")]

\* AgentRunner(config): one ReActEngine with every tool disabled and one
\* ThreadPoolExecutor of concurrency workers; SimpleRunner(config): one
\* client; run_suite(test_cases, ...) then creates the semaphore and one
\* coroutine per case
SuiteInit ==
    /\ max_iterations = RUNNER_MAX_ITERATIONS
    /\ timeout_seconds = RUNNER_TIMEOUT_SECONDS
    /\ tool_registry = <<>>
    /\ EngineIdle
    /\ RegIdle /\ CalcIdle /\ PerfIdle /\ RecIdle
    /\ runner \in Runners
    /\ store \in Stores
    /\ concurrency \in 1..MaxConcurrency
    /\ \E n \in 1..MaxCases : test_cases = [k \in 1..n |-> SuitePrompt(k)]
    /\ permits = concurrency
    /\ case_pc = AllCases(Len(test_cases), "created")
    /\ case_step = AllCases(Len(test_cases), <<>>)
    /\ case_run = AllCases(Len(test_cases), <<>>)
    /\ case_result = AllCases(Len(test_cases), <<>>)
    /\ storage = <<>>
    /\ traj_owner = 0
    /\ step_owner = <<>>

\* what the steps of a case leave alone unless they say otherwise
suite_config == <<runner, store, concurrency, test_cases>>
owners == <<traj_owner, step_owner>>

\* run_case_with_semaphore: async with semaphore, then _run_single_case
\* hands self.engine.run(case.prompt) to a worker of the pool (AgentRunner)
\* or awaits self.client.call(case.prompt) (SimpleRunner)
AcquireAndSubmit(c) ==
    /\ case_pc[c] = "created"
    /\ permits > 0
    /\ permits' = permits - 1
    /\ case_pc' = [case_pc EXCEPT ![c] = IF runner = "AgentRunner" THEN "start" ELSE "call"]
    /\ UNCHANGED <<suite_config, case_step, case_run, case_result, storage,
                   owners, recorder, not_suite>>

\* SimpleRunner: await self.client.call(case.prompt) returns or raises
ClientCall(c, text, ok) ==
    /\ case_pc[c] = "call"
    /\ case_run' = [case_run EXCEPT ![c] =
                        <<IF ok THEN RunReturned(text) ELSE RunRaised("Exception")>>]
    /\ case_pc' = [case_pc EXCEPT ![c] = "ran"]
    /\ UNCHANGED <<suite_config, permits, case_step, case_result, storage,
                   owners, recorder, not_suite>>

\* the worker enters run: self.trajectory_recorder.start(task) on the
\* recorder of the one engine
WorkerStart(c) ==
    /\ case_pc[c] = "start"
    /\ current_trajectory' = <<StartTrajectory(test_cases[c], now)>>
    /\ steps' = StartSteps(steps)
    /\ traj_owner' = c
    /\ step_owner' = <<>>
    /\ case_pc' = [case_pc EXCEPT ![c] = "step"]
    /\ UNCHANGED <<suite_config, permits, case_step, case_run, case_result,
                   storage, not_suite>>

\* the worker's _execute_step up to record_step: a model call raises
WorkerModelRaises(c) ==
    /\ case_pc[c] = "step"
    /\ case_run' = [case_run EXCEPT ![c] = <<RunRaised("ModelError")>>]
    /\ case_pc' = [case_pc EXCEPT ![c] = "ran"]
    /\ UNCHANGED <<suite_config, permits, case_step, case_result, storage,
                   owners, recorder, not_suite>>

\* the worker's _execute_step up to record_step: both model calls return;
\* with no tool registered the decision is final_answer, or an exception
\* leaves decide_action or the final_answer branch
WorkerDecides(c, th, text) ==
    /\ case_pc[c] = "step"
    /\ LET d == decide_action(text, tool_registry)
           r == FinalAnswerResult(d.decision)
       IN  IF d.raises # ""
           THEN /\ case_run' = [case_run EXCEPT ![c] = <<RunRaised(d.raises)>>]
                /\ case_pc' = [case_pc EXCEPT ![c] = "ran"]
                /\ UNCHANGED case_step
           ELSE IF r.raises # ""
           THEN /\ case_run' = [case_run EXCEPT ![c] = <<RunRaised(r.raises)>>]
                /\ case_pc' = [case_pc EXCEPT ![c] = "ran"]
                /\ UNCHANGED case_step
           ELSE /\ case_step' = [case_step EXCEPT ![c] = <<SuiteStep(th, d.decision, r.text)>>]
                /\ case_pc' = [case_pc EXCEPT ![c] = "record"]
                /\ UNCHANGED case_run
    /\ UNCHANGED <<suite_config, permits, case_result, storage, owners,
                   recorder, not_suite>>

\* the worker's record_step(step), on the recorder of the one engine
WorkerRecords(c) ==
    /\ case_pc[c] = "record"
    /\ LET step == case_step[c][1] IN
       IF current_trajectory = <<>>
       THEN /\ case_run' = [case_run EXCEPT ![c] = <<RunRaised("RuntimeError")>>]
            /\ case_pc' = [case_pc EXCEPT ![c] = "ran"]
            /\ UNCHANGED <<recorder, step_owner>>
       ELSE /\ steps' = RecordedSteps(steps, now, step.thought, step.decision,
                                      step.observation, step.result)
            /\ current_trajectory' = <<RecordedTrajectory(TheTrajectory, steps')>>
            /\ step_owner' = Append(step_owner, c)
            /\ case_pc' = [case_pc EXCEPT ![c] = "complete"]
            /\ UNCHANGED case_run
    /\ UNCHANGED <<suite_config, permits, case_step, case_result, storage,
                   traj_owner, not_suite>>

\* the worker's run: _is_task_complete(step) holds of a final_answer step:
\* trajectory_recorder.complete(step.result); return step.result
WorkerCompletes(c) ==
    /\ case_pc[c] = "complete"
    /\ _is_task_complete(case_step[c][1])
    /\ current_trajectory' =
           <<CompletedTrajectory(TheTrajectory, case_step[c][1].result, TRUE, now,
                                 TheTrajectory.start_time)>>
    /\ case_run' = [case_run EXCEPT ![c] = <<RunReturned(case_step[c][1].result)>>]
    /\ case_pc' = [case_pc EXCEPT ![c] = "ran"]
    /\ UNCHANGED <<suite_config, permits, case_step, case_result, storage,
                   steps, owners, not_suite>>

\* a gate that is given back only by a case that returned a record
ReleaseGateOnRecord(p, raised) == IF raised THEN p ELSE p + 1

\* leaving async with semaphore: release(), whether the body returned or raised
ReleaseGate(p, raised) == p + 1

\* _run_single_case after the await: the record is built and appended to the
\* storage, as a success when the run returned and the scorer scored and as
\* an error otherwise; when storage.append raises, the except branch appends
\* too, and its exception leaves _run_single_case. Leaving the async with
\* frees the slot, and gather keeps the record or the exception
StoreRecord(c, scored) ==
    /\ case_pc[c] = "ran"
    /\ LET rec == ExecutionRecord(c, IF case_run[c][1].raises = "" /\ scored
                                     THEN "success" ELSE "error")
       IN  IF AppendRaises(store)
           THEN /\ case_result' = [case_result EXCEPT ![c] = <<GotException>>]
                /\ UNCHANGED storage
           ELSE /\ case_result' = [case_result EXCEPT ![c] = <<GotRecord(rec)>>]
                /\ storage' = Append(storage, rec)
    /\ permits' = ReleaseGate(permits, AppendRaises(store))
    /\ case_pc' = [case_pc EXCEPT ![c] = "done"]
    /\ UNCHANGED <<suite_config, case_step, case_run, owners, recorder, not_suite>>

SuiteNext ==
    \/ \E c \in Cases : AcquireAndSubmit(c)
    \/ \E c \in Cases, a \in Answers, ok \in BOOLEAN : ClientCall(c, Plain(a), ok)
    \/ \E c \in Cases : WorkerStart(c)
    \/ \E c \in Cases : WorkerModelRaises(c)
    \/ \E c \in Cases, th \in Thoughts, text \in SuiteResponses : WorkerDecides(c, th, text)
    \/ \E c \in Cases : WorkerRecords(c)
    \/ \E c \in Cases : WorkerCompletes(c)
    \/ \E c \in Cases, scored \in BOOLEAN : StoreRecord(c, scored)

SuiteSpec == SuiteInit /\ [][SuiteNext]_vars

\* the event loop runs every coroutine that can continue and the pool runs
\* every job it was handed
FairSuiteSpec == SuiteSpec /\ WF_vars(SuiteNext)

\* the cases whose engine.run is executing on a worker
InFlight == {c \in Cases : case_pc[c] \in {"start", "step", "record", "complete"}}

\* C12: at most one run is in flight on an engine instance at any time, in
\* every way the repository issues runs, run_suite included.
C12_SingleRunInFlight == Cardinality(InFlight) <= 1

\* the steps of the current trajectory recorded by other runs than the one
\* whose start() made it
ForeignSteps == {i \in 1..Len(step_owner) : step_owner[i] # traj_owner}

\* the runs in flight that recorded a step the recorder no longer holds
DiscardedRuns ==
    {c \in Cases : case_pc[c] = "complete"
                   /\ \A i \in 1..Len(step_owner) : step_owner[i] # c}

\* C27: every step of the trajectory get_trajectory() returns was produced
\* by the run whose task is the trajectory's, every step a run executes
\* lands in its own trajectory, and no run's recorded steps are discarded by
\* another run's start() while it is in flight, also for the runs
\* run_suite issues with concurrency greater than 1.
C27_RunIsolation ==
    /\ Len(step_owner) = Len(steps)
    /\ ForeignSteps = {}
    /\ DiscardedRuns = {}

\* run_suite has gathered every case
AllDone == \A c \in Cases : case_pc[c] = "done"

\* the records appended to the storage for case c
Stored(c) == {i \in 1..Len(storage) : storage[i].test_case_id = c}

\* the list run_suite returns: the records among the gathered results
ReturnedRecords ==
    LET recs[k \in 0..Len(case_result)] ==
            IF k = 0 THEN <<>>
            ELSE IF case_result[k] # <<>> /\ ~case_result[k][1].exception
                 THEN Append(recs[k - 1], case_result[k][1].record)
                 ELSE recs[k - 1]
    IN  recs[Len(case_result)]

\* the status the record of case c is to carry
StatusOf(c) == IF case_run[c][1].raises = "" THEN "success" ELSE "error"

\* C28: AgentRunner.run_suite, and the function run_suite built on it,
\* return exactly one ExecutionRecord per test case, 'success' when
\* engine.run returned and 'error' when it raised, and append exactly one
\* record per test case to the storage; a failing case removes no other
\* case's record.
C28_SuiteComplete ==
    (runner = "AgentRunner" /\ AllDone) =>
        /\ ReturnedRecords = [c \in Cases |-> ExecutionRecord(c, StatusOf(c))]
        /\ \A c \in Cases : Cardinality(Stored(c)) = 1
        /\ Len(storage) = Len(test_cases)

\* the same of a run_suite whose storage appends and whose scorer scores
C28_WithWorkingStore ==
    (runner = "AgentRunner" /\ store = "JSONLStore" /\ AllDone) =>
        /\ Len(ReturnedRecords) = Len(test_cases)
        /\ \A c \in Cases : ReturnedRecords[c].test_case_id = c
        /\ \A c \in Cases : case_run[c][1].raises # "" => ReturnedRecords[c].status = "error"
        /\ \A c \in Cases : Cardinality(Stored(c)) = 1

\* the cases inside _run_single_case
Inside == {c \in Cases : case_pc[c] \notin {"created", "done"}}

\* never more than concurrency cases are inside, and the slots of the
\* semaphore are those not taken by a case inside
C29_Gate ==
    /\ Cardinality(Inside) <= concurrency
    /\ permits = concurrency - Cardinality(Inside)
    /\ AllDone => permits = concurrency

\* every case finishes, which it does only after it got inside
C29_Progress == <>AllDone

\* C29: while run_suite of AgentRunner or SimpleRunner processes N cases
\* with concurrency c >= 1, at most c cases are inside _run_single_case,
\* every case eventually acquires the gate and runs, and the gate is
\* released when a case finishes, whether it succeeded or raised.
C29_BoundedGate == []C29_Gate /\ C29_Progress

\* with one slot, the first case raised out of _run_single_case and the
\* second case is inside
C29_Witness ==
    /\ concurrency = 1
    /\ Len(test_cases) = 2
    /\ \E c \in Cases :
          /\ case_pc[c] = "done"
          /\ case_result[c] = <<GotException>>
          /\ \E k \in Cases : k # c /\ k \in Inside
    /\ permits = 0

(* ------------------ TrajectoryRecorder on its own --------------------- *)

\* operations followed on one recorder
MaxOps == 4

\* the steps a caller hands to record_step: a tool step and a final answer
StepData ==
    {[thought |-> "thought", decision |-> Decision("calculator", TRUE, InputDict),
      observation |-> Plain("out"), result |-> Plain("out")],
     [thought |-> "thought",
      decision |-> Decision(FINAL_ANSWER, TRUE, InputAnswer(Plain("4"))),
      observation |-> Plain("Task completed"), result |-> Plain("4")]}

\* TrajectoryRecorder.to_dict: the dict save_to_file writes as JSON, key by key
to_dict(traj) ==
    [task |-> traj.task, start_time |-> traj.start_time, end_time |-> traj.end_time,
     success |-> traj.success, final_result |-> traj.final_result,
     total_steps |-> traj.total_steps, duration_seconds |-> traj.duration_seconds,
     steps |-> [i \in 1..Len(traj.steps) |-> traj.steps[i]]]

\* TrajectoryRecorder.load_from_file: the Trajectory built from the JSON data
LoadedTrajectory(data) ==
    Trajectory(data.task, data.start_time, data.end_time, data.steps,
               data.success, data.final_result, data.total_steps,
               data.duration_seconds)

\* a JSON file with the keys load_from_file reads that no recorder wrote:
\* no steps, and a total_steps of 1
ExternalFiles ==
    {[task |-> "task1", start_time |-> 0, end_time |-> Null, success |-> FALSE,
      final_result |-> NoneText, total_steps |-> 1, duration_seconds |-> Null,
      steps |-> <<>>]}

\* TrajectoryRecorder(): no trajectory, no steps
RecInit ==
    /\ max_iterations = 0
    /\ timeout_seconds = 0
    /\ tool_registry = <<>>
    /\ EngineIdle
    /\ UnitIdle

\* one more operation is called on the recorder
RecCall ==
    /\ rec_calls < MaxOps
    /\ rec_calls' = rec_calls + 1

\* recorder.start(t)
RecStart(t) ==
    /\ RecCall
    /\ current_trajectory' = <<StartTrajectory(t, now)>>
    /\ steps' = StartSteps(steps)
    /\ sealed' = <<>>
    /\ UNCHANGED <<disk, external, now, not_rec>>

\* recorder.record_step(step_data): raises RuntimeError without a
\* trajectory, else appends to self.steps and points the trajectory at it
RecRecordStep(step) ==
    /\ RecCall
    /\ IF current_trajectory = <<>>
       THEN UNCHANGED recorder
       ELSE /\ steps' = RecordedSteps(steps, now, step.thought, step.decision,
                                      step.observation, step.result)
            /\ current_trajectory' = <<RecordedTrajectory(TheTrajectory, steps')>>
    /\ UNCHANGED <<disk, sealed, external, now, not_rec>>

\* recorder.complete(final_result, success): raises RuntimeError without a
\* trajectory, else writes the four completion fields
RecComplete(final, success) ==
    /\ RecCall
    /\ IF current_trajectory = <<>>
       THEN UNCHANGED <<recorder, sealed>>
       ELSE /\ current_trajectory' =
                   <<CompletedTrajectory(TheTrajectory, final, success, now,
                                         TheTrajectory.start_time)>>
            /\ sealed' = IF sealed = <<>> THEN current_trajectory' ELSE sealed
            /\ UNCHANGED steps
    /\ UNCHANGED <<disk, external, now, not_rec>>

\* recorder.reset()
RecReset ==
    /\ RecCall
    /\ current_trajectory' = reset_trajectory(current_trajectory)
    /\ steps' = <<>>
    /\ sealed' = <<>>
    /\ UNCHANGED <<disk, external, now, not_rec>>

\* recorder.save_to_file(path): raises RuntimeError without a trajectory
RecSave ==
    /\ RecCall
    /\ disk' = IF current_trajectory = <<>> THEN disk ELSE <<to_dict(TheTrajectory)>>
    /\ UNCHANGED <<recorder, sealed, external, now, not_rec>>

\* recorder.load_from_file(path): the trajectory and self.steps are built
\* from the data of the file
RecLoad(data, foreign) ==
    /\ RecCall
    /\ current_trajectory' = <<LoadedTrajectory(data)>>
    /\ steps' = data.steps
    /\ sealed' = <<>>
    /\ external' = (external \/ foreign)
    /\ UNCHANGED <<disk, now, not_rec>>

\* datetime.now() advances between two operations
RecTick ==
    /\ now < MaxClock
    /\ now' = now + 1
    /\ UNCHANGED <<recorder, rec_vars, not_rec>>

RecNext ==
    \/ \E t \in Tasks : RecStart(t)
    \/ \E step \in StepData : RecRecordStep(step)
    \/ \E final \in {Plain(a) : a \in Answers}, success \in BOOLEAN : RecComplete(final, success)
    \/ RecReset
    \/ RecSave
    \/ \E i \in 1..Len(disk) : RecLoad(disk[i], FALSE)
    \/ \E data \in ExternalFiles : RecLoad(data, TRUE)
    \/ RecTick

RecSpec == RecInit /\ [][RecNext]_vars

\* the fields complete() seals, with the steps and their count
SealedFields(traj) ==
    <<traj.steps, traj.total_steps, traj.success, traj.final_result,
      traj.end_time, traj.duration_seconds>>

\* C24: once complete() has sealed a trajectory, no recorder operation other
\* than start, reset or load_from_file changes its steps, total_steps,
\* success, final_result, end_time or duration_seconds.
C24_WrittenOnce ==
    sealed # <<>> =>
        /\ current_trajectory # <<>>
        /\ SealedFields(TheTrajectory) = SealedFields(sealed[1])

\* C25: a recorder's live trajectory has total_steps = len(steps), and its
\* steps are the recorder's own step list, after any sequence of start,
\* record_step, complete, reset and load_from_file.
C25_StepsMirrored ==
    current_trajectory # <<>> =>
        /\ TheTrajectory.total_steps = Len(TheTrajectory.steps)
        /\ TheTrajectory.steps = steps

\* the same, of a recorder that has loaded only files save_to_file wrote
C25_OwnFilesMirrored == ~external => C25_StepsMirrored
====
